---- MODULE Spec2Model ----
(***************************************************************************)
(* Model of executor/trainer.py: the Trainer base class with its           *)
(* checkpoint store (save_ckpt / load_from_ckpt), the epoch controller     *)
(* (train / test / predict) and the two strategies TeacherTrainer and      *)
(* StudentTrainer, together with the experiment directory they write to.   *)
(*                                                                         *)
(* Python semantics are kept: a statement that raises ends the call, the   *)
(* exception reaches the caller, and nothing after it runs.  Every call    *)
(* leaves a summary record (operation, exception, arguments, the passes it *)
(* invoked) in last[p], so that what a call did can be stated.             *)
(***************************************************************************)
EXTENDS Integers, Sequences, FiniteSets, TLC

\* ------------------------------------------------------------------ bounds
MaxVersion == 2      \* cap on the number of version directories ever created
MaxEpochs  == 2      \* max_epochs is drawn from 1..MaxEpochs
MaxBatches == 2      \* len(dataloader) is drawn from 1..MaxBatches
MaxLines   == 2      \* cap on the banner lines of one outcome file
MaxBatchSize == 2    \* examples in one student batch

VARIABLES
    expExists,   \* does the directory experiment_path exist
    vdirs,       \* version number -> the directory version_<n> (NoDir when absent)
    outcome,     \* outcome name -> the outcome file (NoFile when absent)
    sink,        \* calls made to the metric sink (wandb)
    writers,     \* the trainer processes that may run
    pc,          \* per process: where it is
    obj,         \* per process: the Trainer object's attributes, or NoObj
    loc,         \* per process: locals of a save_ckpt call in progress
    last         \* per process: summary of the last call that ended

vars == <<expExists, vdirs, outcome, sink, writers, pc, obj, loc, last>>

Procs == {1, 2}
Versions == 0 .. (MaxVersion - 1)
\* A version directory: absent, or present with a set of files.
NoDir == [present |-> FALSE, files |-> {}]
Dir(files) == [present |-> TRUE, files |-> files]
\* An outcome file: absent, or present with the lines written so far.
NoFile == [exists |-> FALSE, lines |-> <<>>]
\* No Trainer object.
NoObj ==
    [cls |-> "none", max_epochs |-> 0, interval |-> "none", sched_name |-> "none",
     is_log |-> FALSE, total_steps |-> 0, loaded |-> FALSE]

\* ------------------------------------------------------- module namespace
\* Names bound at module level: the imports of lines 1-11 and the three
\* classes.  `torch` itself is never imported (only names from it are), and
\* neither is pad_sequence.
ModuleGlobals ==
    {"os", "wandb", "Path", "glob", "optim", "nn", "Tensor", "Optimizer",
     "_LRScheduler", "DataLoader", "tqdm", "ABC", "WordErrorRate",
     "Trainer", "TeacherTrainer", "StudentTrainer"}

Bound(name) == name \in ModuleGlobals

\* Attributes Trainer.__init__ assigns on self (text_process is a parameter
\* that is never stored; optim_ckpt is assigned nowhere).
InitAttrs ==
    {"device", "optim_conf", "scheduler_conf", "max_epochs", "wandb_conf",
     "experiment_path"}

Classes == {"TeacherTrainer", "StudentTrainer"}
\* scheduler_conf as explored: a one-cycle schedule stepped per batch, a
\* step schedule stepped per epoch.
SchedulerConfs ==
    {[sched_name |-> "OneCycleLR", interval |-> "step"],
     [sched_name |-> "StepLR", interval |-> "epoch"]}

\* The constructor arguments that the model distinguishes.
Configs ==
    {[cls |-> k, max_epochs |-> m, interval |-> sc.interval,
      sched_name |-> sc.sched_name, is_log |-> l] :
        k \in Classes, m \in 1 .. MaxEpochs, sc \in SchedulerConfs, l \in BOOLEAN}

\* ------------------------------------------------------------- filesystem
\* A checkpoint file is [kind, name]: which blob it holds, and its name
\* <<class name, epoch, step>> for "{class}.epoch={epoch}.step={step}.pt".

\* A trainer name that leaves the epoch out.
TrainerNameByStep(cls, epoch, step) == <<cls, 0, step>>

\* trainer_name: the trainer's class name, epoch and step.
TrainerName(cls, epoch, step) == <<cls, epoch, step>>

\* model_name: by then `model` has been rebound to the dict built at line 72,
\* so model.__class__.__name__ is "dict".
ModelName(epoch, step) == <<"dict", epoch, step>>

\* glob(experiment_path/"version_*"): the version directories present.
GlobVersions(exists, dirs) ==
    IF exists THEN {v \in DOMAIN dirs : dirs[v].present} ELSE {}

\* version = len(glob(...))
NextVersion(exists, dirs) == Cardinality(GlobVersions(exists, dirs))

\* A faulty variant of Mkdir: an existing directory is removed and made anew.
MkdirAnew(exists, dirs, v) ==
    IF ~exists THEN [exc |-> "FileNotFoundError", dirs |-> dirs]
    ELSE [exc |-> "none", dirs |-> [dirs EXCEPT ![v] = Dir({})]]

\* A variant of Mkdir that accepts an existing directory as it is.
MkdirExistOk(exists, dirs, v) ==
    IF ~exists THEN [exc |-> "FileNotFoundError", dirs |-> dirs]
    ELSE IF dirs[v].present THEN [exc |-> "none", dirs |-> dirs]
    ELSE [exc |-> "none", dirs |-> [dirs EXCEPT ![v] = Dir({})]]

\* os.mkdir(version_path): the exception it raises ("none" when it creates
\* the directory) and the directory table it leaves.
Mkdir(exists, dirs, v) ==
    IF ~exists THEN [exc |-> "FileNotFoundError", dirs |-> dirs]
    ELSE IF dirs[v].present THEN [exc |-> "FileExistsError", dirs |-> dirs]
    ELSE [exc |-> "none", dirs |-> [dirs EXCEPT ![v] = Dir({})]]

\* torch.save(trainer, trainer_path); torch.save(model, model_path): the
\* name torch is looked up first, and the lookup fails when it is unbound.
TorchSaveExc == IF Bound("torch") THEN "none" ELSE "NameError"

\* Files in the new version directory after lines 84-85.
SavedFiles(cls, epoch, step) ==
    IF Bound("torch")
    THEN {[kind |-> "trainer", name |-> TrainerName(cls, epoch, step)],
          [kind |-> "model", name |-> ModelName(epoch, step)]}
    ELSE {}

\* A version directory that holds one trainer-state and one model-state file.
Complete(d) ==
    /\ d.present
    /\ Cardinality(d.files) = 2
    /\ \E f \in d.files : f.kind = "trainer"
    /\ \E f \in d.files : f.kind = "model"

\* A complete checkpoint as it lies on disk (stored by another writer
\* into a version directory that exists).
ExtCheckpoint ==
    {[kind |-> "trainer", name |-> <<"TeacherTrainer", 1, 1>>],
     [kind |-> "model", name |-> <<"dict", 1, 1>>]}

\* The version directories that are complete checkpoints.
Checkpoints(exists, dirs) == {v \in GlobVersions(exists, dirs) : Complete(dirs[v])}

\* ------------------------------------------------------------ call record
NoCall ==
    [op |-> "none", exc |-> "none", version |-> -1, epoch |-> -1, step |-> -1,
     path |-> "", task |-> "", nbatches |-> 0, restart |-> FALSE, haskey |-> FALSE,
     trace |-> <<>>, bsize |-> 0, overrides |-> {}, targets |-> <<>>,
     optstate |-> "", schedsteps |-> 0, saves |-> 0, ckpts |-> {}]

NoLoc == [version |-> -1, epoch |-> -1, step |-> -1]

\* The step train_epoch passes to save_ckpt at batch batch_idx of an epoch
\* (enumerate starts at 1, epochs are numbered from 1).
StepId(epoch, batch_idx) == epoch * batch_idx

\* The (epoch, batch_idx) positions of a training run.
Positions == (1 .. MaxEpochs) \X (1 .. MaxBatches)

\* (epoch, step) arguments of the save_ckpt calls that are explored.
SaveArgs == {<<1, 2>>, <<2, 2>>}

\* Outcome files: the one test() names, and one a caller names.
OutcomeNames == {"test", "out"}
CallerNames == {"out"}
NoneName == "None"
\* (epoch, task) arguments of the test_epoch calls that are explored.
EvalArgs == {<<0, "test">>, <<1, "valid">>}

\* ------------------------------------------------------------------- Init
Init ==
    /\ expExists = FALSE
    /\ vdirs = [v \in Versions |-> NoDir]
    /\ outcome = [n \in OutcomeNames |-> NoFile]
    /\ sink = {}
    /\ writers = {1}
    /\ pc = [p \in Procs |-> "unborn"]
    /\ obj = [p \in Procs |-> NoObj]
    /\ loc = [p \in Procs |-> NoLoc]
    /\ last = [p \in Procs |-> NoCall]

\* ------------------------------------------------------------ environment
\* Somebody creates the experiment directory.
ExtMkdirExperiment ==
    /\ ~expExists
    /\ expExists' = TRUE
    /\ UNCHANGED <<vdirs, outcome, sink, writers, pc, obj, loc, last>>

\* Somebody deletes a version directory.
ExtDeleteVersion(v) ==
    /\ expExists
    /\ vdirs[v].present
    /\ vdirs' = [vdirs EXCEPT ![v] = NoDir]
    /\ UNCHANGED <<expExists, outcome, sink, writers, pc, obj, loc, last>>

\* Somebody stores a complete checkpoint in an empty version directory.
ExtWriteCheckpoint(v) ==
    /\ expExists
    /\ vdirs[v] = Dir({})
    /\ vdirs' = [vdirs EXCEPT ![v] = Dir(ExtCheckpoint)]
    /\ UNCHANGED <<expExists, outcome, sink, writers, pc, obj, loc, last>>

\* ------------------------------------------------------------ constructor
\* Trainer.__init__ (through TeacherTrainer / StudentTrainer.__init__):
\* stores the arguments, then `if os.path.exists(p): os.mkdir(p)`, then
\* wandb.init when logging is on.
InitExc(exists) == IF exists THEN "FileExistsError" ELSE "none"

\* The guard as one would expect it: a missing directory is created.
InitDirIfMissing(exists) == TRUE

\* Does experiment_path exist after lines 33-34: os.mkdir is called only on
\* a path that exists (and raises), a missing path is not touched.
InitDir(exists) == exists

Construct(p, c) ==
    /\ p \in writers
    /\ pc[p] \in {"unborn", "dead"}
    /\ last' = [last EXCEPT ![p] =
                  [NoCall EXCEPT !.op = "__init__", !.exc = InitExc(expExists),
                                 !.restart = (pc[p] = "dead")]]
    /\ IF InitExc(expExists) = "none"
       THEN /\ obj' = [obj EXCEPT ![p] =
                         [cls |-> c.cls, max_epochs |-> c.max_epochs,
                          interval |-> c.interval, sched_name |-> c.sched_name,
                          is_log |-> c.is_log, total_steps |-> 0,
                          loaded |-> FALSE]]
            /\ pc' = [pc EXCEPT ![p] = "idle"]
            /\ sink' = IF c.is_log THEN sink \cup {"init"} ELSE sink
       ELSE UNCHANGED <<obj, pc, sink>>
    /\ expExists' = InitDir(expExists)
    /\ UNCHANGED <<vdirs, outcome, writers, loc>>

\* The process is terminated from outside, at any point.
Kill(p) ==
    /\ p \in writers
    /\ pc[p] \in {"idle", "save_mkdir"}
    /\ pc' = [pc EXCEPT ![p] = "dead"]
    /\ obj' = [obj EXCEPT ![p] = NoObj]
    /\ loc' = [loc EXCEPT ![p] = NoLoc]
    /\ last' = [last EXCEPT ![p] = NoCall]
    /\ UNCHANGED <<expExists, vdirs, outcome, sink, writers>>

\* -------------------------------------------------------------- save_ckpt
\* Lines 64-75: the two dicts are built, the version directories are counted
\* and the path of the new one is formed.
SaveCkptBegin(p, epoch, step) ==
    /\ p \in writers
    /\ pc[p] = "idle"
    /\ NextVersion(expExists, vdirs) < MaxVersion
    /\ loc' = [loc EXCEPT ![p] = [version |-> NextVersion(expExists, vdirs),
                                  epoch |-> epoch, step |-> step]]
    /\ pc' = [pc EXCEPT ![p] = "save_mkdir"]
    /\ UNCHANGED <<expExists, vdirs, outcome, sink, writers, obj, last>>

\* Lines 76-85: os.mkdir, the two names, the two torch.save calls.
SaveCkptExc(exists, dirs, v) ==
    LET m == Mkdir(exists, dirs, v)
    IN  IF m.exc # "none" THEN m.exc ELSE TorchSaveExc

SaveCkptDirs(exists, dirs, v, cls, epoch, step) ==
    LET m == Mkdir(exists, dirs, v)
    IN  IF m.exc # "none" THEN m.dirs
        ELSE [m.dirs EXCEPT ![v].files = @ \cup SavedFiles(cls, epoch, step)]

SaveCkptWrite(p) ==
    /\ p \in writers
    /\ pc[p] = "save_mkdir"
    /\ vdirs' = SaveCkptDirs(expExists, vdirs, loc[p].version, obj[p].cls,
                             loc[p].epoch, loc[p].step)
    /\ last' = [last EXCEPT ![p] =
                  [NoCall EXCEPT !.op = "save_ckpt",
                                 !.exc = SaveCkptExc(expExists, vdirs, loc[p].version),
                                 !.version = loc[p].version,
                                 !.epoch = loc[p].epoch, !.step = loc[p].step,
                                 !.ckpts = Checkpoints(expExists, vdirs)]]
    /\ pc' = [pc EXCEPT ![p] = "idle"]
    /\ loc' = [loc EXCEPT ![p] = NoLoc]
    /\ UNCHANGED <<expExists, outcome, sink, writers, obj>>

\* --------------------------------------------------------- load_from_ckpt
\* ckpt_path.get("trainer") is falsy without the key: nothing is loaded.
\* With the key, torch.load is looked up first; were torch bound, line 92
\* iterates the hyperparams dict itself, which yields its key strings, and
\* unpacking one of them ("device", ...) into k, v raises ValueError.
LoadFromCkptExc(haskey) ==
    IF ~haskey THEN "none"
    ELSE IF ~Bound("torch") THEN "NameError"
    ELSE "ValueError"

\* The hyperparameters held by the trainer blob of a stored checkpoint.
ExtHyper ==
    [cls |-> "TeacherTrainer", max_epochs |-> 1, interval |-> "epoch",
     sched_name |-> "StepLR", is_log |-> FALSE, total_steps |-> 0, loaded |-> TRUE]

\* The object's attributes after load_from_ckpt: the setattr of line 93 runs
\* only when the call gets that far.
LoadFromCkptObj(o, haskey) ==
    IF haskey /\ LoadFromCkptExc(haskey) = "none" THEN ExtHyper ELSE o

LoadFromCkpt(p, haskey, v) ==
    /\ p \in writers
    /\ pc[p] = "idle"
    /\ IF haskey THEN expExists /\ Complete(vdirs[v]) ELSE v = 0
    /\ obj' = [obj EXCEPT ![p] = LoadFromCkptObj(obj[p], haskey)]
    /\ last' = [last EXCEPT ![p] =
                  [NoCall EXCEPT !.op = "load_from_ckpt",
                                 !.exc = LoadFromCkptExc(haskey),
                                 !.haskey = haskey,
                                 !.version = IF haskey THEN v ELSE -1]]
    /\ UNCHANGED <<expExists, vdirs, outcome, sink, writers, pc, loc>>

\* -------------------------------------------- get_optimizer_and_scheduler
\* What an nn.Module offers among the names the trainer asks of a model.
ModelAttrs == {"parameters", "state_dict", "recognize", "__dict__", "__class__"}

\* Line 41 asks the model for `paramters`; line 50 reads self.optim_ckpt,
\* an attribute the constructor does not assign.
GetOptimizerExc ==
    IF "paramters" \notin ModelAttrs THEN "AttributeError"
    ELSE IF "optim_ckpt" \notin InitAttrs THEN "AttributeError"
    ELSE "none"

\* The state the returned optimizer and scheduler carry ("" when the call
\* does not return): the checkpoint's after lines 51-52, else the fresh one.
GetOptimizerState(o) ==
    IF GetOptimizerExc # "none" THEN ""
    ELSE IF o.loaded THEN "checkpoint" ELSE "fresh"

\* scheduler_conf["total_steps"] after the call (0: never set): line 45 comes
\* after the optimizer is built.
GetOptimizerTotalSteps(o, nbatches) ==
    IF GetOptimizerExc = "none" /\ o.sched_name = "OneCycleLR"
    THEN nbatches * o.max_epochs
    ELSE o.total_steps

GetOptimizerAndScheduler(p, nbatches) ==
    /\ p \in writers
    /\ pc[p] = "idle"
    /\ obj' = [obj EXCEPT ![p].total_steps = GetOptimizerTotalSteps(obj[p], nbatches)]
    /\ last' = [last EXCEPT ![p] =
                  [NoCall EXCEPT !.op = "get_optimizer_and_scheduler",
                                 !.exc = GetOptimizerExc,
                                 !.optstate = GetOptimizerState(obj[p]),
                                 !.nbatches = nbatches]]
    /\ UNCHANGED <<expExists, vdirs, outcome, sink, writers, pc, loc>>

\* ------------------------------------------------------------ train_epoch
\* Lines 149 and 246: `enumerate(tqdm, start=1)` enumerates the class tqdm
\* imported at line 9, not pbar; a class is not iterable.
LoopExc == "TypeError"

\* Student targets after the mixing of lines 251-264: the loop body is never
\* entered, so no target is built.
StudentTargets(bsize, overrides) == <<>>

TrainEpoch(p, epoch, bsize, overrides) ==
    /\ p \in writers
    /\ pc[p] = "idle"
    /\ IF obj[p].cls = "StudentTrainer"
       THEN bsize \in 1 .. MaxBatchSize /\ overrides \subseteq 1 .. bsize
       ELSE bsize = 0 /\ overrides = {}
    /\ last' = [last EXCEPT ![p] =
                  [NoCall EXCEPT !.op = "train_epoch", !.exc = LoopExc,
                                 !.epoch = epoch, !.bsize = bsize,
                                 !.overrides = overrides,
                                 !.targets = StudentTargets(bsize, overrides)]]
    /\ UNCHANGED <<expExists, vdirs, outcome, sink, writers, pc, obj, loc>>

\* ------------------------------------------------------------------ train
\* Line 98 comes first; its exception ends train().  Were it to return, the
\* first train_epoch call of line 101 raises.
TrainExc == IF GetOptimizerExc # "none" THEN GetOptimizerExc ELSE LoopExc

\* The passes and epoch-level scheduler steps train() started, in order.
TrainTrace ==
    IF GetOptimizerExc # "none" THEN <<>> ELSE << <<"train_epoch", 1, "">> >>

\* scheduler.step() calls made during train(), in the strategy (lines 164,
\* 276) or at line 105: none is reached.
TrainSchedSteps == 0

\* save_ckpt calls made during train(), by the strategy after each batch
\* (lines 175, 287): none is reached.
TrainSaves == 0

Train(p, nbatches) ==
    /\ p \in writers
    /\ pc[p] = "idle"
    /\ obj' = [obj EXCEPT ![p].total_steps = GetOptimizerTotalSteps(obj[p], nbatches)]
    /\ last' = [last EXCEPT ![p] =
                  [NoCall EXCEPT !.op = "train", !.exc = TrainExc,
                                 !.nbatches = nbatches, !.trace = TrainTrace,
                                 !.schedsteps = TrainSchedSteps,
                                 !.saves = TrainSaves]]
    /\ UNCHANGED <<expExists, vdirs, outcome, sink, writers, pc, loc>>

\* ------------------------------------------------------------- test_epoch
\* The fourth positional argument of test_epoch is `task` in TeacherTrainer
\* (outcome_name keeps its default None) and `outcome_name` in StudentTrainer.
FourthAsTask(cls, a) == IF cls = "TeacherTrainer" THEN a ELSE ""
FourthAsName(cls, a) == IF cls = "TeacherTrainer" THEN NoneName ELSE a

\* StudentTrainer.test_epoch has no `task` parameter, yet formats it into the
\* banner (line 303).
BannerRaises(cls) == cls = "StudentTrainer" /\ ~Bound("task")

\* The exception test_epoch ends with: os.path.join with None, open() in a
\* missing directory, the banner's f-string, torch.inference_mode, the loop.
EvalExc(cls, exists, name) ==
    IF name = NoneName THEN "TypeError"
    ELSE IF ~exists THEN "FileNotFoundError"
    ELSE IF BannerRaises(cls) THEN "NameError"
    ELSE IF ~Bound("torch") THEN "NameError"
    ELSE LoopExc

\* The outcome file after test_epoch: open(..., "a") creates it, the banner
\* is appended when its f-string can be formatted.
EvalFile(cls, f, epoch, task) ==
    IF BannerRaises(cls) THEN [exists |-> TRUE, lines |-> f.lines]
    ELSE [exists |-> TRUE, lines |-> Append(f.lines, <<task, epoch>>)]

EvalOutcome(cls, exists, files, epoch, task, name) ==
    IF name = NoneName \/ ~exists THEN files
    ELSE [files EXCEPT ![name] = EvalFile(cls, files[name], epoch, task)]

Eval(p, op, epoch, task, name, trace) ==
    /\ p \in writers
    /\ pc[p] = "idle"
    /\ name \in OutcomeNames => Len(outcome[name].lines) < MaxLines
    /\ outcome' = EvalOutcome(obj[p].cls, expExists, outcome, epoch, task, name)
    /\ last' = [last EXCEPT ![p] =
                  [NoCall EXCEPT !.op = op,
                                 !.exc = EvalExc(obj[p].cls, expExists, name),
                                 !.epoch = epoch, !.task = task, !.path = name,
                                 !.trace = trace]]
    /\ UNCHANGED <<expExists, vdirs, sink, writers, pc, obj, loc>>

\* test_epoch called on the strategy directly, outcome_name given or not.
TestEpoch(p, epoch, task, name) ==
    /\ obj[p].cls = "StudentTrainer" => task = ""
    /\ obj[p].cls = "TeacherTrainer" => <<epoch, task>> \in EvalArgs
    /\ Eval(p, "test_epoch", epoch, task, name, <<>>)

\* test() as it would be with the epoch of a first training epoch.
TestAtEpochOne(p) ==
    Eval(p, "test", 1, FourthAsTask(obj[p].cls, "test"),
         FourthAsName(obj[p].cls, "test"), << <<"test_epoch", 1, "test">> >>)

\* test(): self.test_epoch(model, dataloader, 0, "test")
Test(p) ==
    Eval(p, "test", 0, FourthAsTask(obj[p].cls, "test"),
         FourthAsName(obj[p].cls, "test"), << <<"test_epoch", 0, "test">> >>)

\* predict(): self.test_epoch(model, dataloader, 0, outcome_path)
Predict(p, path) ==
    Eval(p, "predict", 0, FourthAsTask(obj[p].cls, path),
         FourthAsName(obj[p].cls, path), << <<"test_epoch", 0, path>> >>)

\* ------------------------------------------------------------------- Next
ProcNext(p) ==
    \/ \E c \in Configs : Construct(p, c)
    \/ Kill(p)
    \/ \E a \in SaveArgs : SaveCkptBegin(p, a[1], a[2])
    \/ SaveCkptWrite(p)
    \/ \E k \in BOOLEAN, v \in Versions : LoadFromCkpt(p, k, v)
    \/ \E b \in 1 .. MaxBatches : GetOptimizerAndScheduler(p, b)
    \/ \E n \in 0 .. MaxBatchSize, o \in SUBSET (1 .. MaxBatchSize) :
          TrainEpoch(p, 1, n, o)
    \/ \E b \in 1 .. MaxBatches : Train(p, b)
    \/ \E e \in 0 .. 1, t \in {"", "test", "valid"}, n \in CallerNames \cup {NoneName} :
          TestEpoch(p, e, t, n)
    \/ Test(p)
    \/ \E n \in CallerNames : Predict(p, n)

EnvNext ==
    \/ ExtMkdirExperiment
    \/ \E v \in Versions : ExtDeleteVersion(v)
    \/ \E v \in Versions : ExtWriteCheckpoint(v)

Next == (\E p \in Procs : ProcNext(p)) \/ EnvNext

Spec == Init /\ [][Next]_vars

\* ------------------------------------------------------ concurrent writers
\* Two trainer processes on one experiment directory, each constructing
\* its trainer and then calling save_ckpt any number of times, while other
\* programs create the experiment directory and store checkpoints in it.
InitConcurrent ==
    /\ expExists = FALSE
    /\ vdirs = [v \in Versions |-> NoDir]
    /\ outcome = [n \in OutcomeNames |-> NoFile]
    /\ sink = {}
    /\ writers = Procs
    /\ pc = [p \in Procs |-> "unborn"]
    /\ obj = [p \in Procs |-> NoObj]
    /\ loc = [p \in Procs |-> NoLoc]
    /\ last = [p \in Procs |-> NoCall]

\* The constructor arguments of the writers: save_ckpt reads the class only.
WriterConfigs ==
    {c \in Configs : c.max_epochs = 1 /\ c.interval = "epoch" /\ ~c.is_log}

WriterNext(p) ==
    \/ \E c \in WriterConfigs : Construct(p, c)
    \/ \E a \in SaveArgs : SaveCkptBegin(p, a[1], a[2])
    \/ SaveCkptWrite(p)

NextConcurrent == (\E p \in Procs : WriterNext(p)) \/ EnvNext

SpecConcurrent == InitConcurrent /\ [][NextConcurrent]_vars

\* ===================================================================
\* Properties
\* ===================================================================
IsPrefix(a, b) == Len(a) <= Len(b) /\ SubSeq(b, 1, Len(a)) = a

\* A step in which process p ends a save_ckpt call.
SaveEnds(p) == pc[p] = "save_mkdir" /\ pc'[p] = "idle"

\* C1: a save_ckpt call made when the experiment directory holds exactly
\* version_0 .. version_{N-1} creates version_N, leaves exactly one
\* trainer-state and one model-state file in it, and changes no other
\* version directory.
C1_SaveWritesTwoFiles ==
    [][\A p \in Procs :
         (/\ SaveEnds(p)
          /\ expExists
          /\ GlobVersions(expExists, vdirs) = 0 .. (loc[p].version - 1))
         => /\ Complete(vdirs'[loc[p].version])
            /\ \A v \in Versions \ {loc[p].version} : vdirs'[v] = vdirs[v]]_vars

\* The passes a full train() run of M epochs makes, in order: the train
\* pass and the validation pass of each epoch, then the epoch-level
\* scheduler step when the interval is "epoch".
RECURSIVE EpochsTrace(_, _, _)
EpochsTrace(e, M, interval) ==
    IF e > M THEN <<>>
    ELSE << <<"train_epoch", e, "">>, <<"test_epoch", e, "valid">> >>
         \o (IF interval = "epoch" THEN << <<"scheduler.step", e, "">> >> ELSE <<>>)
         \o EpochsTrace(e + 1, M, interval)

\* C2: train() ends normally after max_epochs train passes and max_epochs
\* validation passes, alternating in epoch order, with one epoch-level
\* scheduler step per epoch exactly when the interval is "epoch".
C2_TrainRunsAllEpochs ==
    \A p \in Procs :
        last[p].op = "train"
        => /\ last[p].exc = "none"
           /\ last[p].trace = EpochsTrace(1, obj[p].max_epochs, obj[p].interval)

\* C3: the version number a save_ckpt call has chosen is greater than every
\* version number present in the experiment directory.
C3_VersionAboveAllPresent ==
    \A p \in Procs :
        pc[p] = "save_mkdir"
        => \A v \in GlobVersions(expExists, vdirs) : loc[p].version > v

\* C4: get_optimizer_and_scheduler returns an optimizer and scheduler that
\* carry the loaded checkpoint's state when a checkpoint was loaded, and
\* freshly initialised ones on a cold start.
C4_OptimizerStateRestored ==
    \A p \in Procs :
        last[p].op = "get_optimizer_and_scheduler"
        => /\ last[p].exc = "none"
           /\ last[p].optstate = IF obj[p].loaded THEN "checkpoint" ELSE "fresh"

\* A step in which process p ends a load_from_ckpt call.
LoadEnds(p) ==
    pc[p] = "idle" /\ last'[p].op = "load_from_ckpt" /\ last'[p] # last[p]

\* C5: load_from_ckpt with the key "trainer" puts every stored
\* hyperparameter on the controller; without the key it changes nothing.
C5_LoadOverwritesHyperparams ==
    [][\A p \in Procs :
         LoadEnds(p)
         => /\ last'[p].exc = "none"
            /\ obj'[p] = IF last'[p].haskey THEN ExtHyper ELSE obj[p]]_vars

\* C6: with a one-cycle scheduler, train() sets total_steps to
\* len(dataloader) * max_epochs and steps the scheduler exactly that many
\* times, so that no step remains after the last batch of the last epoch.
C6_OneCycleBudgetUsedUp ==
    \A p \in Procs :
        (last[p].op = "train" /\ obj[p].sched_name = "OneCycleLR")
        => /\ obj[p].total_steps = last[p].nbatches * obj[p].max_epochs
           /\ last[p].schedsteps = obj[p].total_steps

\* The target the student is to be trained on at index i: the encoded
\* tokens of the ground-truth transcript at an override index, the encoded
\* teacher output elsewhere.
ExpectedTarget(i, overrides) ==
    <<"text2int", IF i \in overrides THEN "transcript" ELSE "teacher", i>>

\* C7: a student training step builds one target per example of the batch,
\* the encoded ground-truth transcript at every override index and the
\* encoded teacher output at every other index.
C7_StudentTargetsMixed ==
    \A p \in Procs :
        (last[p].op = "train_epoch" /\ obj[p].cls = "StudentTrainer")
        => /\ Len(last[p].targets) = last[p].bsize
           /\ \A i \in 1 .. last[p].bsize :
                 last[p].targets[i] = ExpectedTarget(i, last[p].overrides)

\* A step in which process p ends an evaluation pass, and the outcome file
\* the pass was asked to write ("test" for test(), the caller's path for
\* predict(), outcome_name for test_epoch).
EvalEnds(p) ==
    /\ pc[p] = "idle"
    /\ last'[p].op \in {"test_epoch", "test", "predict"}
    /\ last'[p] # last[p]

EvalTarget(call) ==
    IF call.op = "test_epoch" THEN call.path ELSE call.trace[1][3]

\* C8: every evaluation pass run while the experiment directory exists
\* keeps the lines already in every outcome file and appends one banner to
\* the file it was asked to write.
C8_BannerPerPass ==
    [][\A p \in Procs :
         (EvalEnds(p) /\ expExists)
         => /\ \A n \in OutcomeNames : IsPrefix(outcome[n].lines, outcome'[n].lines)
            /\ EvalTarget(last'[p]) \in OutcomeNames
                 => /\ outcome'[EvalTarget(last'[p])].exists
                    /\ Len(outcome'[EvalTarget(last'[p])].lines)
                         = Len(outcome[EvalTarget(last'[p])].lines) + 1]_vars

\* A step in which a killed process p constructs its trainer again.
RestartEnds(p) ==
    pc[p] = "dead" /\ last'[p].op = "__init__" /\ last'[p] # last[p]

\* C9: a killed run can be restarted on an experiment directory that holds
\* a complete checkpoint: the trainer is constructed again, and a train()
\* run of a restored trainer starts at the checkpoint's position (the
\* stored checkpoint is of epoch 1) rather than with no pass at all.
C9_RestartResumes ==
    [][\A p \in Procs :
         /\ (/\ RestartEnds(p)
             /\ expExists
             /\ \E v \in Versions : Complete(vdirs[v]))
            => (pc'[p] = "idle" /\ last'[p].exc = "none")
         /\ (last'[p].op = "train" /\ obj'[p].loaded)
            => /\ last'[p].trace # <<>>
               /\ last'[p].trace[1] = <<"train_epoch", 1, "">>]_vars

\* C10: no step of a trainer process (a save_ckpt that fails at mkdir or at
\* the first write, any other call, a kill) changes a version directory
\* that holds both of its files: such a directory changes only by a step of
\* the environment.
C10_CompleteCheckpointsKept ==
    [][(\E v \in Versions : Complete(vdirs[v]) /\ vdirs'[v] # vdirs[v])
         => EnvNext]_vars

\* A save_ckpt call has failed on a version directory that was a complete
\* checkpoint when the call reached os.mkdir, and the checkpoint is there.
C10_Witness ==
    \E p \in Procs :
        /\ last[p].op = "save_ckpt"
        /\ last[p].exc = "FileExistsError"
        /\ last[p].version \in last[p].ckpts
        /\ vdirs[last[p].version] = Dir(ExtCheckpoint)

\* A step in which process p ends a test() or a predict() call.
SingleShotEnds(p) ==
    /\ pc[p] = "idle"
    /\ last'[p].op \in {"test", "predict"}
    /\ last'[p] # last[p]

\* C11: a test() or predict() call starts exactly one evaluation pass, with
\* epoch 0, and nothing else: it makes no training pass and no scheduler
\* step, and it leaves the version directories, the trainer's attributes
\* (hyperparameters, scheduler budget, loaded optimizer state) and every
\* save in progress as they were.
C11_SingleShotFrame ==
    [][\A p \in Procs :
         SingleShotEnds(p)
         => /\ Len(last'[p].trace) = 1
            /\ last'[p].trace[1][1] = "test_epoch"
            /\ last'[p].trace[1][2] = 0
            /\ last'[p].epoch = 0
            /\ last'[p].schedsteps = 0
            /\ vdirs' = vdirs
            /\ obj' = obj
            /\ pc' = pc
            /\ loc' = loc]_vars

\* A test() call has ended on a trainer whose experiment directory holds a
\* version directory.
C11_Witness ==
    /\ \E v \in Versions : vdirs[v].present
    /\ \E p \in Procs : last[p].op = "test" /\ last[p].trace # <<>>

\* C12: the evaluation pass of a test() call opens and writes the outcome
\* file named "test", and the pass of a predict() call the outcome file the
\* caller named: the pass is handed that name, the file exists afterwards
\* and the pass ends without an exception.
C12_PassWritesNamedFile ==
    \A p \in Procs :
        (/\ last[p].op \in {"test", "predict"}
         /\ expExists
         /\ last[p].exc # "FileNotFoundError")
        => /\ last[p].path = EvalTarget(last[p])
           /\ outcome[EvalTarget(last[p])].exists
           /\ last[p].exc = "none"

\* A step of process p that ends a call, and one that ends a training or
\* an evaluation pass over a dataloader (which holds at least one batch).
CallEnds(p) == last'[p] # last[p] /\ last'[p].op # "none"

PassEnds(p) ==
    /\ CallEnds(p)
    /\ last'[p].op \in {"train_epoch", "test_epoch", "test", "predict"}

\* C13: a call of a trainer constructed with logging disabled makes no call
\* to the metric sink, neither its initialisation nor a scalar emission; a
\* training or evaluation pass of a trainer with logging enabled has
\* emitted the scalars of its batches when it ends.
C13_EmissionGated ==
    [][\A p \in Procs :
         /\ (CallEnds(p) /\ ~obj'[p].is_log) => sink' = sink
         /\ (PassEnds(p) /\ obj[p].is_log) => "log" \in sink']_vars

\* C14: a train() run of M epochs over B batches steps the scheduler M*B
\* times when the interval is "step" (once per batch, in the strategy) and
\* M times when it is "epoch" (once per epoch, in train()).
C14_SchedulerStepsCount ==
    \A p \in Procs :
        last[p].op = "train"
        => last[p].schedsteps =
              IF obj[p].interval = "step"
              THEN obj[p].max_epochs * last[p].nbatches
              ELSE obj[p].max_epochs

\* C15: a train() run of M epochs over B batches saves one checkpoint per
\* training batch, M*B in all, and has started every training pass it was
\* to make.
C15_CheckpointPerBatch ==
    \A p \in Procs :
        last[p].op = "train"
        => /\ last[p].saves = obj[p].max_epochs * last[p].nbatches
           /\ \A e \in 1 .. obj[p].max_epochs :
                 \E i \in 1 .. Len(last[p].trace) :
                    last[p].trace[i] = <<"train_epoch", e, "">>

\* C16: every version directory present in the experiment directory holds
\* exactly one trainer-state and one model-state file, in every state, so
\* that the highest-numbered one is a complete checkpoint.
C16_VersionDirsComplete ==
    \A v \in GlobVersions(expExists, vdirs) : Complete(vdirs[v])

\* C17: a trainer constructed on a missing experiment directory leaves it
\* missing, and as long as it is missing every checkpoint save and every
\* evaluation pass of the trainer ends with an exception (the directory or
\* file cannot be created; for the teacher the outcome path cannot even be
\* formed) and writes nothing.
C17_MissingDirStaysMissing ==
    [][\A p \in Procs :
         /\ (CallEnds(p) /\ last'[p].op = "__init__" /\ ~expExists)
            => (~expExists' /\ last'[p].exc = "none")
         /\ (/\ CallEnds(p)
             /\ last'[p].op \in {"save_ckpt", "test_epoch", "test", "predict"}
             /\ ~expExists)
            => /\ last'[p].exc \in {"FileNotFoundError", "TypeError"}
               /\ last'[p].op = "save_ckpt" => last'[p].exc = "FileNotFoundError"
               /\ vdirs' = vdirs
               /\ outcome' = outcome
               /\ ~expExists']_vars

\* A checkpoint save of a trainer has failed on the missing experiment
\* directory, which is still missing.
C17_Witness ==
    /\ ~expExists
    /\ \E p \in Procs :
          /\ pc[p] = "idle"
          /\ last[p].op = "save_ckpt"
          /\ last[p].exc = "FileNotFoundError"

\* A save_ckpt call of process p has formed its two file names (lines
\* 78-79): os.mkdir returned, the call ended at torch.save.
NamesFormed(p) == last[p].op = "save_ckpt" /\ last[p].exc = TorchSaveExc

\* The two file names of a checkpoint saved by a trainer of class cls at a
\* position of the run.
NamesAt(cls, pos) ==
    <<TrainerName(cls, pos[1], StepId(pos[1], pos[2])),
      ModelName(pos[1], StepId(pos[1], pos[2]))>>

\* C18 as stated: the step identifier epoch * batch_index collides across
\* epochs, and two distinct positions of a run give the same checkpoint
\* file name.
C18_NamesCollide ==
    \A p \in Procs :
        NamesFormed(p)
        => \E a, b \in Positions :
              /\ a # b
              /\ StepId(a[1], a[2]) = StepId(b[1], b[2])
              /\ \/ NamesAt(obj[p].cls, a)[1] = NamesAt(obj[p].cls, b)[1]
                 \/ NamesAt(obj[p].cls, a)[2] = NamesAt(obj[p].cls, b)[2]

\* C18: the step identifier epoch * batch_index collides across epochs
\* (epoch 2 batch 1 and epoch 1 batch 2 both give step 2), yet the file
\* names a save has formed differ from those of every other position of
\* the run, the positions with the same step included: the names embed
\* the epoch as well as the step.
C18_NamesDistinct ==
    \A p \in Procs :
        NamesFormed(p)
        => /\ StepId(2, 1) = StepId(1, 2)
           /\ \A a \in Positions :
                 <<a[1], StepId(a[1], a[2])>> # <<last[p].epoch, last[p].step>>
                 => /\ NamesAt(obj[p].cls, a)[1]
                         # TrainerName(obj[p].cls, last[p].epoch, last[p].step)
                    /\ NamesAt(obj[p].cls, a)[2]
                         # ModelName(last[p].epoch, last[p].step)

\* A save at epoch 2, step 2 has formed its names; epoch 1 batch 2 is
\* another position of the run with step 2.
C18_Witness ==
    \E p \in Procs :
        /\ NamesFormed(p)
        /\ last[p].epoch = 2
        /\ last[p].step = StepId(1, 2)
        /\ <<1, 2>> \in Positions

\* C19: with two writers, a save_ckpt call that reaches os.mkdir when its
\* version directory is already there (created by the other writer after
\* both had counted the same directories, or by anybody else) ends with
\* FileExistsError and changes nothing; a call that finds it absent creates
\* it and touches no other version directory.  So a version directory is
\* created, and written to, by one save call only, and no file that exists
\* is replaced.
C19_OneSavePerVersionDir ==
    [][\A p \in Procs :
         (SaveEnds(p) /\ expExists)
         => /\ vdirs[loc[p].version].present
                 => (last'[p].exc = "FileExistsError" /\ vdirs' = vdirs)
            /\ ~vdirs[loc[p].version].present
                 => /\ last'[p].exc # "FileExistsError"
                    /\ vdirs'[loc[p].version].present
                    /\ \A v \in Versions \ {loc[p].version} :
                          vdirs'[v] = vdirs[v]]_vars

\* Both writers have ended a save_ckpt call for the same version number:
\* the directory was created by the first, the second was refused.
C19_Witness ==
    /\ writers = Procs
    /\ last[1].op = "save_ckpt"
    /\ last[2].op = "save_ckpt"
    /\ last[1].version = last[2].version
    /\ last[1].exc = TorchSaveExc
    /\ last[2].exc = "FileExistsError"
    /\ vdirs[last[1].version].present

====
